---- MODULE Spec2Model ----
(***************************************************************************)
(* Model of litter_assessment_service/api.py: the DEEPaaS entry points     *)
(* warm() and predict().  predict is a sequential procedure; its           *)
(* position is pc, its locals are variables, and every statement block is  *)
(* one action.  The file system, the loaded models and the result of the   *)
(* last call persist between calls.  log is a history variable holding     *)
(* the calls the current predict has made, in order.                       *)
(***************************************************************************)
EXTENDS Integers, Sequences, FiniteSets, TLC

\* ---------------------------------------------------------------- bounds
\* predict calls made
MaxCalls == 2
\* images submitted, over all calls (a zip counts its members, any other
\* upload one image)
MaxImages == 3

\* ---------------------------------------------------------------- values
\* file names: "x.jpg", "xx.jpg", ...
Name(i) == [k \in 1..i |-> "x"] \o <<".", "j", "p", "g">>

ContentTypes == {"application/zip", "application/octet-stream", "image/jpeg"}
\* "none" stands for every output_type other than Download and nextcloud
OutputTypes == {"Download", "nextcloud", "none"}
\* exit status of the rclone subprocess
CopyOutcomes == {"ok", "failed"}

NoPath == [dir |-> 0, name |-> <<>>, anon |-> FALSE]
NoMatrix == <<0, 0>>
NoResult == [c_matrix |-> NoMatrix, model |-> 0]
NoImage == [src |-> NoPath]
\* the temporary file DEEPaaS stores an upload in (data.filename)
UploadPath == [dir |-> 0, name |-> <<"upload">>, anon |-> FALSE]

\* what os.listdir can give for an extracted zip of n images: the names in
\* one order or the other (the order is the file system's)
Listings == UNION {{[i \in 1..n |-> Name(i)], [i \in 1..n |-> Name(n + 1 - i)]} :
                     n \in 0..MaxImages}

Uploads == {[content_type |-> "application/zip", filename |-> UploadPath,
             original_filename |-> <<"u", ".", "z", "i", "p">>, members |-> l] : l \in Listings}
           \cup {[content_type |-> c, filename |-> UploadPath,
                  original_filename |-> Name(1), members |-> <<>>] :
                    c \in ContentTypes \ {"application/zip"}}

\* the number of images an upload holds
Size(d) == IF d.content_type = "application/zip" THEN Len(d.members) ELSE 1

Kwargs == [face_detection : BOOLEAN, PLD_plot : BOOLEAN, PLQ_plot : BOOLEAN,
           output_type : OutputTypes]

NoKwargs == [face_detection |-> FALSE, PLD_plot |-> FALSE, PLQ_plot |-> FALSE,
             output_type |-> "none"]
NoData == [content_type |-> "image/jpeg", filename |-> NoPath,
           original_filename |-> <<>>, members |-> <<>>]

Ev(op, img, kind, id, mx, path) ==
  [op |-> op, img |-> img, kind |-> kind, id |-> id, mx |-> mx, path |-> path]

NoReturn == [kind |-> "nocall", path |-> NoPath, members |-> {}]
Pending == [kind |-> "pending", path |-> NoPath, members |-> {}]
ReturnNone == [kind |-> "None", path |-> NoPath, members |-> {}]
Raised == [kind |-> "raised", path |-> NoPath, members |-> {}]

VARIABLES
  pc,            \* position of predict: "idle" between calls
  nCalls,        \* predict calls started
  nImages,       \* images submitted so far, over all calls
  predictLoads,  \* preprocessing.warm calls made by predict
  model_PLD, model_PLQ,   \* the globals: identity of the loaded models
  dirs,          \* temporary directories that exist
  nextDir,       \* tempfile.mkdtemp's supply of fresh names
  fs,            \* files that exist
  kwargs, data,  \* arguments of the current call
  image_names, image_files, tmp_dir, idx, image, results_PLD, results_PLQ,
  ret,           \* what the last call returned
  copy_failed,   \* a remote copy of the current call exited non-zero
  log            \* history: the current call's steps, in order

vars == <<pc, nCalls, nImages, predictLoads, model_PLD, model_PLQ, dirs,
          nextDir, fs, kwargs, data, image_names, image_files, tmp_dir, idx,
          image, results_PLD, results_PLQ, ret, copy_failed, log>>

persistent == <<nCalls, nImages, predictLoads, model_PLD, model_PLQ,
                dirs, nextDir, fs>>
locals == <<kwargs, data, image_names, image_files, tmp_dir, idx, image,
            results_PLD, results_PLQ>>

\* ------------------------------------------------------------ pure helpers
Min(a, b) == IF a < b THEN a ELSE b
Last(s) == s[Len(s)]

\* os.path.basename
Basename(n) ==
  LET cut == {i \in 1..Len(n) : n[i] = "/"}
  IN IF cut = {} THEN n
     ELSE SubSeq(n, (CHOOSE i \in cut : \A j \in cut : j <= i) + 1, Len(n))

\* name[:-4]
Stem(n) == IF Len(n) > 4 THEN SubSeq(n, 1, Len(n) - 4) ELSE <<>>

\* os.path.join(tmp_dir, name[:-4])
OutputPath(d, name) == [dir |-> d, name |-> Stem(Basename(name)), anon |-> FALSE]
\* f'{output_path}_{type}.jpg'
PlotPath(output_path, type) ==
  [output_path EXCEPT !.name = @ \o <<"_", type, ".jpg">>]
\* f'{output_path}_litter_items.xlsx'
ExcelPath(output_path) ==
  [output_path EXCEPT !.name = @ \o <<"_litter_items", ".xlsx">>]

\* a temporary directory's name, as path components
DirName(d) == [i \in 1..d |-> "t"]

\* get_input_data: names and paths of the images; a zip is extracted into
\* the fresh directory tmp_input
get_input_data(d, tmp_input) ==
  IF d.content_type = "application/zip"
  THEN [image_names |-> d.members,
        image_file |-> [i \in 1..Len(d.members) |->
                          [dir |-> tmp_input, name |-> d.members[i], anon |-> FALSE]],
        made |-> {tmp_input}]
  ELSE [image_names |-> <<d.original_filename>>,
        image_file |-> <<d.filename>>,
        made |-> {}]

\* face_detection.anonymize_images: one anonymized path per input path
anonymize_images(files, names) ==
  [i \in 1..Len(files) |-> [files[i] EXCEPT !.anon = TRUE]]

AnonymizedFiles_Dropped(flag, files, names) == files

\* image_files after the face_detection branch
AnonymizedFiles(flag, files, names) ==
  IF flag THEN anonymize_images(files, names) ELSE files

\* zip(image_names, image_files): the pairs the loop iterates over
NPairs == Min(Len(image_names), Len(image_files))

\* get_arr_from_bin: its argument is the element of image_files, a path
\* (get_input_data returns data.filename; the lines that opened and read the
\* file are commented out).  The path goes to io.BytesIO, which takes
\* bytes-like objects only, so the call raises TypeError.
get_arr_from_bin(file) == "TypeError"

\* the image-decoding block of the loop: the array, or the exception raised
OpenImage(content_type, file) ==
  IF content_type = "application/octet-stream"
  THEN get_arr_from_bin(file)
  ELSE "array"

\* classification.PLD_result: the detection of one image of one request
PLD_result(img, i, model, call) == [c_matrix |-> <<call, i>>, model |-> model]
\* classification.PLQ_result: quantification from a detection matrix
PLQ_result(c_matrix, img, model) == [c_matrix |-> c_matrix, model |-> model]

DetectionOf_Stale(old, img, i, model, call) ==
  IF old # NoResult THEN old ELSE PLD_result(img, i, model, call)

\* results_PLD after line 193
DetectionOf(old, img, i, model, call) == PLD_result(img, i, model, call)

mount_nextcloud_Checked(outcome) ==
  IF outcome = "failed" THEN "raised" ELSE "returned"

\* mount_nextcloud: communicate() returns whatever the exit status; the
\* status is never looked at.  "returned" or "raised".
mount_nextcloud(outcome) == "returned"

\* shutil.make_archive(tmp_dir, 'zip', root_dir = tmp_dir) writes tmp_dir + '.zip'
ArchivePath(d) == [dir |-> 0, name |-> DirName(d) \o <<".zip">>, anon |-> FALSE]

DirsAtExit_Cleanup(ds, d) == ds \ {d}

\* directories left when predict exits: nothing is removed
DirsAtExit(ds, d) == ds

\* tempfile.mkdtemp(): the directory predict writes into is the fresh one
ScratchDir(fresh, ds) == fresh

\* the object one preprocessing.warm call returns: the load of model
\* `which' made by predict call `call' (call 0: by warm()); 0 is no model
\* (the globals model_PLD and model_PLQ are unbound until the first load)
NotLoaded == 0
Load(call, which) == 2 * call + (IF which = "PLD" THEN 1 ELSE 2)

LoadedModel_Cached(current, fresh) ==
  IF current # NotLoaded THEN current ELSE fresh

\* a global after `model = preprocessing.warm(name)': the model just loaded
LoadedModel(current, fresh) == fresh

ReturnsInLoop_Aggregating == FALSE

\* every download branch ends in `return open(...)' inside the loop body
ReturnsInLoop == TRUE

Workbook_PerStage(i, excel_path, rPLD, rPLQ) ==
  << Ev("sheet", i, "Litter Detection", 0, rPLD.c_matrix, excel_path),
     Ev("sheet", i, "Litter Quantification", 0, rPLQ.c_matrix,
        [excel_path EXCEPT !.name = @ \o <<"_PLQ">>]) >>

\* the ExcelWriter block: one file, one sheet per stage
Workbook(i, excel_path, rPLD, rPLQ) ==
  << Ev("sheet", i, "Litter Detection", 0, rPLD.c_matrix, excel_path),
     Ev("sheet", i, "Litter Quantification", 0, rPLQ.c_matrix, excel_path) >>

\* the plot types the nextcloud branch of each plot-mode uploads, in order
NextcloudTypes(pld, plq) ==
  IF pld /\ plq THEN <<"PLD", "PLQ">>
  ELSE IF pld THEN <<"PLD">>
  ELSE IF plq THEN <<"PLQ">>
  ELSE <<>>

\* return_plot: the figure is saved as {output_path}_{type}.jpg
return_plot(i, type, output_path) ==
  Ev("plot", i, type, 0, NoMatrix, PlotPath(output_path, type))

\* save_plot_nextcloud: the figure is saved again and that one file is
\* handed to rclone copy; mount_nextcloud's result is dropped
save_plot_nextcloud(i, type, output_path, outcome) ==
  [events |-> << Ev("plot", i, type, 0, NoMatrix, PlotPath(output_path, type)),
                 Ev("upload", i, type, 0, NoMatrix, PlotPath(output_path, type)) >>,
   raised |-> mount_nextcloud(outcome) = "raised",
   failed |-> outcome = "failed"]

\* the save_plot_nextcloud calls of one loop pass, stopping at one that raises
RECURSIVE Upload(_, _, _, _)
Upload(i, types, output_path, outcomes) ==
  IF types = <<>> THEN [events |-> <<>>, raised |-> FALSE, failed |-> FALSE]
  ELSE LET one == save_plot_nextcloud(i, types[1], output_path, outcomes[1])
           rest == Upload(i, Tail(types), output_path, Tail(outcomes))
       IN IF one.raised THEN one
          ELSE [events |-> one.events \o rest.events,
                raised |-> rest.raised,
                failed |-> one.failed \/ rest.failed]

PathsOf(events) == {events[k].path : k \in DOMAIN events}

\* ------------------------------------------------------------------ state
Init ==
  /\ pc = "idle" /\ nCalls = 0 /\ nImages = 0 /\ predictLoads = 0
  /\ model_PLD = NotLoaded /\ model_PLQ = NotLoaded
  /\ dirs = {} /\ nextDir = 1 /\ fs = {}
  /\ kwargs = NoKwargs /\ data = NoData
  /\ image_names = <<>> /\ image_files = <<>> /\ tmp_dir = 0 /\ idx = 0
  /\ image = NoImage /\ results_PLD = NoResult /\ results_PLQ = NoResult
  /\ ret = NoReturn /\ copy_failed = FALSE /\ log = <<>>

\* predict leaves the loop by return or by an exception
Finish(r, events) ==
  /\ pc' = "idle"
  /\ ret' = r
  /\ dirs' = DirsAtExit(dirs, tmp_dir)
  /\ log' = log \o events
  /\ idx' = idx

\* the loop body ends; the for statement takes the next pair
Continue(events) ==
  /\ pc' = "loop"
  /\ ret' = ret
  /\ dirs' = dirs
  /\ log' = log \o events
  /\ idx' = idx + 1

\* a download branch: returns the handle from inside the loop
Download(handle, events) ==
  IF ReturnsInLoop
  THEN Finish(handle, events \o <<Ev("return", idx, handle.kind, 0, NoMatrix, handle.path)>>)
  ELSE Continue(events)

\* ---------------------------------------------------------------- actions
\* warm(): both models are loaded into the globals.  It runs "before
\* requests to the API are made" (its docstring): before the first predict.
Warm ==
  /\ pc = "idle" /\ nCalls = 0 /\ model_PLD = NotLoaded
  /\ model_PLD' = LoadedModel(model_PLD, Load(0, "PLD"))
  /\ model_PLQ' = LoadedModel(model_PLQ, Load(0, "PLQ"))
  /\ UNCHANGED <<pc, nCalls, nImages, predictLoads, dirs, nextDir, fs, locals, ret,
                 copy_failed, log>>

\* predict is called: lines 169-175, both models are loaded
Predict_Begin ==
  /\ pc = "idle" /\ nCalls < MaxCalls
  /\ \E k \in Kwargs, d \in Uploads :
       /\ nImages + Size(d) <= MaxImages
       /\ nImages' = nImages + Size(d)
       /\ kwargs' = k
       /\ data' = d
  /\ nCalls' = nCalls + 1
  /\ model_PLD' = LoadedModel(model_PLD, Load(nCalls + 1, "PLD"))
  /\ model_PLQ' = LoadedModel(model_PLQ, Load(nCalls + 1, "PLQ"))
  /\ predictLoads' = predictLoads + 2
  /\ image_names' = <<>> /\ image_files' = <<>> /\ tmp_dir' = 0 /\ idx' = 0
  /\ image' = NoImage /\ results_PLD' = NoResult /\ results_PLQ' = NoResult
  /\ ret' = Pending /\ copy_failed' = FALSE
  /\ log' = << Ev("load", 0, "PLD", Load(nCalls + 1, "PLD"), NoMatrix, NoPath),
               Ev("load", 0, "PLQ", Load(nCalls + 1, "PLQ"), NoMatrix, NoPath) >>
  /\ pc' = "input"
  /\ UNCHANGED <<dirs, nextDir, fs>>

\* lines 176-181: the input is resolved, anonymized on request, and the
\* scratch directory is made
Predict_Input ==
  /\ pc = "input"
  /\ LET r == get_input_data(data, nextDir)
         files == AnonymizedFiles(kwargs.face_detection, r.image_file, r.image_names)
         fresh == nextDir + Cardinality(r.made)
         tmp == ScratchDir(fresh, dirs)
     IN /\ image_names' = r.image_names
        /\ image_files' = files
        /\ tmp_dir' = tmp
        /\ dirs' = dirs \cup r.made \cup {tmp}
        /\ nextDir' = fresh + 1
        /\ fs' = fs \cup (IF r.made = {} THEN {}
                          ELSE {r.image_file[i] : i \in DOMAIN r.image_file})
        /\ log' = log \o <<Ev("resolve", 0, "", Len(r.image_names), NoMatrix, NoPath)>>
                      \o (IF kwargs.face_detection
                          THEN <<Ev("anonymize", 0, "", Len(files), NoMatrix, NoPath)>>
                          ELSE <<>>)
                      \o <<Ev("mkdtemp", 0, IF tmp \in dirs \cup r.made THEN "existing" ELSE "fresh",
                              tmp, NoMatrix, NoPath)>>
  /\ idx' = 1
  /\ pc' = "loop"
  /\ UNCHANGED <<nCalls, nImages, predictLoads, model_PLD, model_PLQ,
                 kwargs, data, image, results_PLD, results_PLQ, ret, copy_failed>>

\* the for statement is exhausted: predict falls off its end
Loop_Exit ==
  /\ pc = "loop" /\ idx > NPairs
  /\ Finish(ReturnNone, <<Ev("return", 0, "None", 0, NoMatrix, NoPath)>>)
  /\ UNCHANGED <<nCalls, nImages, predictLoads, model_PLD, model_PLQ,
                 nextDir, fs, kwargs, data, image_names, image_files, tmp_dir,
                 image, results_PLD, results_PLQ, copy_failed>>

\* lines 184-192: the next pair's image is decoded
Loop_Open ==
  /\ pc = "loop" /\ idx <= NPairs
  /\ OpenImage(data.content_type, image_files[idx]) = "array"
  /\ image' = [src |-> image_files[idx]]
  /\ log' = Append(log, Ev("open", idx, "", 0, NoMatrix, image_files[idx]))
  /\ pc' = "detect"
  /\ UNCHANGED <<persistent, kwargs, data, image_names, image_files, tmp_dir,
                 idx, results_PLD, results_PLQ, ret, copy_failed>>

\* lines 188-189: decoding raises, and the exception leaves predict
Loop_OpenRaises ==
  /\ pc = "loop" /\ idx <= NPairs
  /\ OpenImage(data.content_type, image_files[idx]) # "array"
  /\ Finish(Raised, <<Ev("raise", idx, OpenImage(data.content_type, image_files[idx]),
                         0, NoMatrix, image_files[idx])>>)
  /\ UNCHANGED <<nCalls, nImages, predictLoads, model_PLD, model_PLQ,
                 nextDir, fs, kwargs, data, image_names, image_files, tmp_dir,
                 image, results_PLD, results_PLQ, copy_failed>>

\* lines 193-194: detection of the image just decoded
Loop_Detect ==
  /\ pc = "detect"
  /\ LET r == DetectionOf(results_PLD, image, idx, model_PLD, nCalls)
     IN /\ results_PLD' = r
        /\ log' = Append(log, Ev("detect", idx, "PLD", r.model, r.c_matrix, image.src))
  /\ pc' = "plots"
  /\ UNCHANGED <<persistent, kwargs, data, image_names, image_files, tmp_dir,
                 idx, image, results_PLQ, ret, copy_failed>>

\* os.path.join(tmp_dir, name[:-4]) for the pair in hand
output_path == OutputPath(tmp_dir, image_names[idx])

\* what no branch of the loop body changes
fixed == <<nCalls, nImages, predictLoads, model_PLD, model_PLQ, nextDir,
           kwargs, data, image_names, image_files, tmp_dir, image>>

\* the nextcloud branch of a plot-mode: its save_plot_nextcloud calls
Nextcloud ==
  \E outcomes \in [1..2 -> CopyOutcomes] :
    LET u == Upload(idx, NextcloudTypes(kwargs.PLD_plot, kwargs.PLQ_plot),
                    output_path, outcomes)
    IN /\ fs' = fs \cup {e.path : e \in {u.events[k] : k \in DOMAIN u.events}}
       /\ copy_failed' = (copy_failed \/ u.failed)
       /\ IF u.raised
          THEN Finish(Raised, u.events \o <<Ev("raise", idx, "copy", 0, NoMatrix, NoPath)>>)
          ELSE Continue(u.events)

\* the else branch of a plot-mode: a message is printed
NoOutput ==
  /\ Continue(<<Ev("print", idx, "no output type selected", 0, NoMatrix, NoPath)>>)
  /\ UNCHANGED <<fs, copy_failed>>

\* lines 196-205: both plots, the quantification and the workbook
Both_Plots ==
  /\ pc = "plots" /\ kwargs.PLD_plot /\ kwargs.PLQ_plot
  /\ LET q == PLQ_result(results_PLD.c_matrix, image, model_PLQ)
         book == Workbook(idx, ExcelPath(output_path), results_PLD, q)
     IN /\ results_PLQ' = q
        /\ fs' = fs \cup {PlotPath(output_path, "PLD"), PlotPath(output_path, "PLQ")}
                    \cup PathsOf(book)
        /\ log' = log \o << return_plot(idx, "PLD", output_path),
                             Ev("quantify", idx, "PLQ", q.model, q.c_matrix, image.src),
                             return_plot(idx, "PLQ", output_path) >>
                      \o book
  /\ pc' = "both_out"
  /\ UNCHANGED <<fixed, dirs, idx, results_PLD, ret, copy_failed>>

\* lines 206-209: the scratch directory is archived and the archive returned
Both_Download ==
  /\ pc = "both_out" /\ kwargs.output_type = "Download"
  /\ LET zip_path == ArchivePath(tmp_dir)
         members == {f \in fs \cup {zip_path} : f.dir = tmp_dir}
     IN /\ fs' = fs \cup {zip_path}
        /\ Download([kind |-> "zip", path |-> zip_path, members |-> members],
                    <<Ev("archive", idx, "zip", tmp_dir, NoMatrix, zip_path)>>)
  /\ UNCHANGED <<fixed, results_PLD, results_PLQ, copy_failed>>

\* lines 211-217
Both_Nextcloud ==
  /\ pc = "both_out" /\ kwargs.output_type = "nextcloud"
  /\ Nextcloud
  /\ UNCHANGED <<fixed, results_PLD, results_PLQ>>

\* lines 218-219
Both_NoOutput ==
  /\ pc = "both_out" /\ kwargs.output_type \notin {"Download", "nextcloud"}
  /\ NoOutput
  /\ UNCHANGED <<fixed, results_PLD, results_PLQ>>

\* lines 221-223: the detection plot alone
PLD_Plots ==
  /\ pc = "plots" /\ kwargs.PLD_plot /\ ~kwargs.PLQ_plot
  /\ fs' = fs \cup {PlotPath(output_path, "PLD")}
  /\ log' = Append(log, return_plot(idx, "PLD", output_path))
  /\ pc' = "pld_out"
  /\ UNCHANGED <<fixed, dirs, idx, results_PLD, results_PLQ, ret, copy_failed>>

\* lines 224-225
PLD_Download ==
  /\ pc = "pld_out" /\ kwargs.output_type = "Download"
  /\ Download([kind |-> "file", path |-> PlotPath(output_path, "PLD"), members |-> {}], <<>>)
  /\ UNCHANGED <<fixed, fs, results_PLD, results_PLQ, copy_failed>>

\* lines 226-229
PLD_Nextcloud ==
  /\ pc = "pld_out" /\ kwargs.output_type = "nextcloud"
  /\ Nextcloud
  /\ UNCHANGED <<fixed, results_PLD, results_PLQ>>

\* lines 230-231
PLD_NoOutput ==
  /\ pc = "pld_out" /\ kwargs.output_type \notin {"Download", "nextcloud"}
  /\ NoOutput
  /\ UNCHANGED <<fixed, results_PLD, results_PLQ>>

\* lines 233-238: the quantification and its plot alone
PLQ_Plots ==
  /\ pc = "plots" /\ ~kwargs.PLD_plot /\ kwargs.PLQ_plot
  /\ LET q == PLQ_result(results_PLD.c_matrix, image, model_PLQ)
     IN /\ results_PLQ' = q
        /\ log' = log \o << Ev("quantify", idx, "PLQ", q.model, q.c_matrix, image.src),
                             return_plot(idx, "PLQ", output_path) >>
  /\ fs' = fs \cup {PlotPath(output_path, "PLQ")}
  /\ pc' = "plq_out"
  /\ UNCHANGED <<fixed, dirs, idx, results_PLD, ret, copy_failed>>

\* lines 239-240
PLQ_Download ==
  /\ pc = "plq_out" /\ kwargs.output_type = "Download"
  /\ Download([kind |-> "file", path |-> PlotPath(output_path, "PLQ"), members |-> {}], <<>>)
  /\ UNCHANGED <<fixed, fs, results_PLD, results_PLQ, copy_failed>>

\* lines 241-244
PLQ_Nextcloud ==
  /\ pc = "plq_out" /\ kwargs.output_type = "nextcloud"
  /\ Nextcloud
  /\ UNCHANGED <<fixed, results_PLD, results_PLQ>>

\* lines 245-246
PLQ_NoOutput ==
  /\ pc = "plq_out" /\ kwargs.output_type \notin {"Download", "nextcloud"}
  /\ NoOutput
  /\ UNCHANGED <<fixed, results_PLD, results_PLQ>>

\* neither plot is asked for: no branch of the if statement is taken
No_Plots ==
  /\ pc = "plots" /\ ~kwargs.PLD_plot /\ ~kwargs.PLQ_plot
  /\ Continue(<<>>)
  /\ UNCHANGED <<fixed, fs, results_PLD, results_PLQ, copy_failed>>

Next ==
  \/ Warm
  \/ Predict_Begin
  \/ Predict_Input
  \/ Loop_Exit
  \/ Loop_Open
  \/ Loop_OpenRaises
  \/ Loop_Detect
  \/ Both_Plots
  \/ Both_Download
  \/ Both_Nextcloud
  \/ Both_NoOutput
  \/ PLD_Plots
  \/ PLD_Download
  \/ PLD_Nextcloud
  \/ PLD_NoOutput
  \/ PLQ_Plots
  \/ PLQ_Download
  \/ PLQ_Nextcloud
  \/ PLQ_NoOutput
  \/ No_Plots

Spec == Init /\ [][Next]_vars

\* ------------------------------------------------------------ properties
Completed == pc = "idle" /\ nCalls > 0
Ops(op) == {k \in DOMAIN log : log[k].op = op}
OpsOn(op, i) == {k \in Ops(op) : log[k].img = i}
Kinds(events) == [k \in DOMAIN events |-> events[k].kind]
UploadsOf(i) == SelectSeq(log, LAMBDA e : e.op = "upload" /\ e.img = i)
IsZip == data.content_type = "application/zip"
Ext(f) == IF f.name = <<>> THEN "" ELSE Last(f.name)
FirstOut == OutputPath(tmp_dir, image_names[1])

\* C1: a zip of N >= 2 images with output_type Download and a plot asked for:
\* nothing is ever done for images 2..N, predict returns in its first loop
\* pass, and the handle is the first image's artifact (both plots: an archive
\* of exactly the first image's two plots and workbook).
C1_FirstImageOnly ==
  (nCalls > 0 /\ IsZip /\ Len(data.members) >= 2
     /\ kwargs.output_type = "Download" /\ (kwargs.PLD_plot \/ kwargs.PLQ_plot))
  => /\ \A k \in DOMAIN log : log[k].img <= 1
     /\ pc = "idle" =>
          /\ idx = 1
          /\ IF kwargs.PLD_plot /\ kwargs.PLQ_plot
             THEN /\ ret.kind = "zip"
                  /\ ret.members = {PlotPath(FirstOut, "PLD"), PlotPath(FirstOut, "PLQ"),
                                    ExcelPath(FirstOut)}
             ELSE /\ ret.kind = "file"
                  /\ ret.path = PlotPath(FirstOut, IF kwargs.PLD_plot THEN "PLD" ELSE "PLQ")

C1_Witness ==
  /\ Completed /\ IsZip /\ Len(data.members) >= 2
  /\ kwargs.output_type = "Download" /\ kwargs.PLD_plot /\ kwargs.PLQ_plot
  /\ ret.kind = "zip" /\ Cardinality(ret.members) = 3

\* C2: a single non-zip upload with output_type Download and both plots:
\* predict returns an archive of the scratch directory holding exactly one
\* .xlsx and two .jpg files, not itself, not the input, no other call's file.
C2_SingleImageArchive ==
  (Completed /\ ~IsZip /\ kwargs.output_type = "Download"
     /\ kwargs.PLD_plot /\ kwargs.PLQ_plot)
  => /\ ret.kind = "zip"
     /\ Cardinality(ret.members) = 3
     /\ Cardinality({f \in ret.members : Ext(f) = ".xlsx"}) = 1
     /\ Cardinality({f \in ret.members : Ext(f) = ".jpg"}) = 2
     /\ ret.path \notin ret.members
     /\ data.filename \notin ret.members
     /\ ret.members \subseteq PathsOf(log)

\* C2, the part the code keeps: the same for an upload whose content type is
\* not application/octet-stream.
C2_DecodableUpload ==
  data.content_type = "image/jpeg" => C2_SingleImageArchive

C2_DecodableWitness ==
  /\ Completed /\ nCalls = 2 /\ fs # {} /\ data.content_type = "image/jpeg"
  /\ kwargs.output_type = "Download" /\ kwargs.PLD_plot /\ kwargs.PLQ_plot
  /\ \E f \in fs : f.dir \notin {0, tmp_dir}

\* C3: every quantification follows, in the same call, a detection of the
\* same image, and is given that detection's c_matrix: the matrix of this
\* call and this image.
C3_QuantifyAfterDetect ==
  \A k \in Ops("quantify") :
    /\ log[k].mx = <<nCalls, log[k].img>>
    /\ \E j \in Ops("detect") :
         /\ j < k
         /\ log[j].img = log[k].img
         /\ log[j].path = log[k].path
         /\ log[j].mx = log[k].mx

C3_Witness ==
  /\ nCalls = 2
  /\ \E k \in Ops("quantify") : log[k].img = 2

\* C4: an output_type other than Download and nextcloud: predict returns None,
\* uploads nothing, raises nothing and passes over every input image.
C4_SilentFallThrough ==
  (Completed /\ kwargs.output_type \notin {"Download", "nextcloud"})
  => /\ ret = ReturnNone
     /\ Ops("upload") = {}
     /\ Ops("raise") = {}
     /\ {log[k].img : k \in Ops("detect")} = 1..Size(data)

\* C4, the part the code keeps: the same for uploads it can decode.
C4_DecodableUpload ==
  data.content_type # "application/octet-stream" => C4_SilentFallThrough

C6_FailurePropagates ==
  (Completed /\ copy_failed) => ret.kind = "raised"

\* C6 as amended: a remote copy that exits with a failure changes nothing:
\* nothing is raised, every upload of every image is still issued and
\* predict returns None.
C6_FailureIgnored ==
  copy_failed
  => /\ Ops("raise") = {}
     /\ ret.kind # "raised"
     /\ pc = "idle" =>
          /\ ret = ReturnNone
          /\ \A i \in 1..Size(data) :
               Kinds(UploadsOf(i)) = NextcloudTypes(kwargs.PLD_plot, kwargs.PLQ_plot)

C6_Witness ==
  /\ Completed /\ copy_failed /\ ret = ReturnNone
  /\ Size(data) >= 2 /\ kwargs.PLD_plot /\ kwargs.PLQ_plot

\* C7: every predict call loads both models first, 2k loads after k calls,
\* and detection and quantification use the models that call loaded, not the
\* ones warm() or an earlier call left in the globals.
C7_FreshModels ==
  /\ predictLoads = 2 * nCalls
  /\ nCalls > 0 =>
       /\ Len(log) >= 2
       /\ log[1].op = "load" /\ log[1].kind = "PLD" /\ log[1].id = Load(nCalls, "PLD")
       /\ log[2].op = "load" /\ log[2].kind = "PLQ" /\ log[2].id = Load(nCalls, "PLQ")
       /\ \A k \in Ops("resolve") : k > 2
       /\ model_PLD = log[1].id /\ model_PLQ = log[2].id
       /\ \A k \in Ops("detect") : log[k].id = log[1].id
       /\ \A k \in Ops("quantify") : log[k].id = log[2].id

C7_Witness ==
  /\ nCalls = 2 /\ Completed
  /\ Ops("detect") # {} /\ Ops("quantify") # {}

WorkbookWritten(i) ==
  \E a, b \in OpsOn("sheet", i) :
    /\ a < b
    /\ OpsOn("sheet", i) = {a, b}
    /\ log[a].kind = "Litter Detection" /\ log[b].kind = "Litter Quantification"
    /\ log[a].path = log[b].path /\ log[a].path \in fs
    /\ log[a].mx = <<nCalls, i>> /\ log[b].mx = <<nCalls, i>>

\* C8 as claimed: when detection and quantification have both run for an
\* image and its output dispatch is reached, the two-sheet workbook exists.
C8_WorkbookWhenBothRun ==
  (pc \in {"both_out", "plq_out"} /\ OpsOn("detect", idx) # {} /\ OpsOn("quantify", idx) # {})
  => WorkbookWritten(idx)

\* C8 as amended: when both plots are asked for, the two-sheet workbook of an
\* image is written before its output dispatch, whatever the output_type; in
\* the other plot-modes no workbook is written.
C8_WorkbookWhenBothPlots ==
  /\ pc = "both_out" =>
       /\ WorkbookWritten(idx)
       /\ \A k \in DOMAIN log :
            log[k].op \in {"upload", "archive", "print", "return"} => log[k].img < idx
  /\ (nCalls > 0 /\ ~(kwargs.PLD_plot /\ kwargs.PLQ_plot)) => Ops("sheet") = {}

C8_Witness ==
  /\ pc = "both_out" /\ kwargs.output_type = "none" /\ idx = 2

\* C9: with output_type nextcloud predict handles all N images in order, one
\* at a time, uploads for each exactly the plots of the plot-mode (PLD then
\* PLQ), never the workbook, and returns no handle.
C9_NextcloudAllImages ==
  (Completed /\ kwargs.output_type = "nextcloud")
  => /\ ret = ReturnNone
     /\ {log[k].img : k \in Ops("detect")} = 1..Size(data)
     /\ \A j, k \in DOMAIN log :
          (j < k /\ log[j].img > 0 /\ log[k].img > 0) => log[j].img <= log[k].img
     /\ \A i \in 1..Size(data) :
          Kinds(UploadsOf(i)) = NextcloudTypes(kwargs.PLD_plot, kwargs.PLQ_plot)
     /\ \A k \in Ops("upload") : Ext(log[k].path) = ".jpg"

\* C9, the part the code keeps: the same for uploads it can decode.
C9_DecodableUpload ==
  data.content_type # "application/octet-stream" => C9_NextcloudAllImages

\* C10: every directory ever made still exists; a call that has resolved its
\* input has a fresh scratch directory of its own (and an extraction
\* directory for a zip), so k calls leave at least k directories; and the
\* files a call writes go into its own scratch directory.
C10_ScratchDirsLeak ==
  /\ dirs = 1..(nextDir - 1)
  /\ pc # "input" => Cardinality(dirs) >= nCalls
  /\ (nCalls > 0 /\ pc # "input") =>
       /\ tmp_dir \in dirs
       /\ \A k \in Ops("mkdtemp") : log[k].kind = "fresh" /\ log[k].id = tmp_dir
       /\ IsZip => \E d \in dirs \ {tmp_dir} :
                      \A i \in DOMAIN image_files : image_files[i].dir = d
       /\ \A k \in Ops("plot") \cup Ops("sheet") : log[k].path.dir = tmp_dir
       /\ {f \in fs : f.dir = tmp_dir} \subseteq PathsOf(log)

C10_Witness ==
  /\ Completed /\ nCalls = 2 /\ ret.kind = "raised"
  /\ Cardinality(dirs) = 3
  /\ \E f \in fs : f.dir \in dirs \ {tmp_dir}

====
